---- MODULE Spec2Model ----
(***************************************************************************)
(* Model of the Hera execution extension (bin/hera/src/hera.rs):           *)
(*   - command-line parsing of HeraArgsExt (clap attributes),              *)
(*   - ValidationMode::from_str,                                           *)
(*   - rollup-configuration resolution in HeraCli::run,                    *)
(*   - HeraExEx::new, HeraExEx::wait_for_l2_genesis_l1_block and           *)
(*     HeraExEx::start,                                                    *)
(* together with the host node that owns the other end of the two          *)
(* channels of ExExContext (notifications in, events out).                 *)
(*                                                                         *)
(* Option<T> is modelled as a sequence: <<>> is None, <<x>> is Some(x).    *)
(* Strings that the code inspects are sequences of one-character strings.  *)
(***************************************************************************)
EXTENDS Integers, Sequences, FiniteSets, TLC

VARIABLES
    pc,             \* position of the program (see PcValues)
    cli,            \* Option<command line>: the raw arguments, until clap parses them
    args,           \* Option<HeraArgsExt>: the parsed arguments
    cfg,            \* Option<RollupConfig>: HeraExEx.cfg once resolved
    outcome,        \* Option<reason>: how run()/start() ended, <<>> while running
    queue,          \* ctx.notifications: notifications sent and not yet received
    closed,         \* the host dropped the notifications sender
    events_closed,  \* the host dropped the events receiver
    tip,            \* Option<u64>: the local `tip` of the current loop iteration
    recv_none,      \* the last recv() returned None
    consumed,       \* history: every notification recv() has returned
    acks,           \* history: heights of the FinishedHeight events the host got
    results         \* history: the outcome of every `tip >= genesis` comparison

vars == <<pc, cli, args, cfg, outcome, queue, closed, events_closed, tip,
          recv_none, consumed, acks, results>>

-----------------------------------------------------------------------------
(* Bounds *)

\* block heights range over 0..MaxHeight
MaxHeight == 3

\* the host sends at most MaxNotifs notifications in a run
MaxNotifs == 3

Heights == 0..MaxHeight

-----------------------------------------------------------------------------
(* Option helpers *)

None == <<>>
Some(x) == <<x>>
IsSome(o) == o # <<>>
Unwrap(o) == o[1]

-----------------------------------------------------------------------------
(* Strings as character sequences *)

UpperAlpha == <<"A","B","C","D","E","F","G","H","I","J","K","L","M",
                "N","O","P","Q","R","S","T","U","V","W","X","Y","Z">>
LowerAlpha == <<"a","b","c","d","e","f","g","h","i","j","k","l","m",
                "n","o","p","q","r","s","t","u","v","w","x","y","z">>

\* char::to_lowercase on the ASCII range
LowerChar(c) ==
    IF \E i \in 1..Len(UpperAlpha) : UpperAlpha[i] = c
    THEN LowerAlpha[CHOOSE i \in 1..Len(UpperAlpha) : UpperAlpha[i] = c]
    ELSE c

\* str::to_lowercase
to_lowercase(s) == [i \in 1..Len(s) |-> LowerChar(s[i])]

STR_trusted    == <<"t","r","u","s","t","e","d">>
STR_engine_api == <<"e","n","g","i","n","e","-","a","p","i">>

\* the values --hera.validation-mode is given in the runs explored
Selectors ==
    { STR_trusted,
      <<"T","r","u","s","t","e","d">>,
      STR_engine_api,
      <<"E","N","G","I","N","E","-","A","P","I">>,
      <<"E","n","g","i","n","e","-","A","p","i">> ,
      <<"e","n","g","i","n","e","_","a","p","i">>,
      <<"f","a","s","t">> }

-----------------------------------------------------------------------------
(* Results: Ok(v) / Err(e) *)

Ok(v)  == [ok |-> TRUE,  val |-> <<v>>, err |-> <<>>]
Err(e) == [ok |-> FALSE, val |-> <<>>,  err |-> <<e>>]

-----------------------------------------------------------------------------
(* Command line: HeraArgsExt and ValidationMode *)

DEFAULT_L2_CHAIN_ID == 10

\* the chain identifiers given on the command line in the runs explored:
\* the default one (in the registry) and one the registry does not know
ChainIds == {DEFAULT_L2_CHAIN_ID, DEFAULT_L2_CHAIN_ID + 1}

\* superchain_registry::RollupConfig::from_l2_chain_id, with block heights
\* scaled into Heights
from_l2_chain_id(id) ==
    IF id = DEFAULT_L2_CHAIN_ID
    THEN Some([l2_chain_id |-> id, genesis_l1_number |-> MaxHeight - 1])
    ELSE None

\* Paths given to --hera.l2-config-file. A path is <<kind, h>>: a file that
\* cannot be opened, a file that is no rollup configuration, or a file
\* holding a rollup configuration whose genesis.l1.number is h.
Paths == {<<"missing", 0>>, <<"garbage", 0>>} \cup {<<"rollup", h>> : h \in Heights}

\* File::open(path)
FileOpen(path) ==
    IF path[1] = "missing" THEN Err("Failed to open l2 config file") ELSE Ok(path)

\* serde_json::from_reader(file)
from_reader(file) ==
    IF file[1] = "rollup"
    THEN Ok([l2_chain_id |-> DEFAULT_L2_CHAIN_ID, genesis_l1_number |-> file[2]])
    ELSE Err("Failed to read l2 config file")

\* every command line explored
CliInputs ==
    [ l2_chain_id          : ChainIds,
      l2_config_file       : {None} \cup {Some(p) : p \in Paths},
      validation_mode      : {None} \cup {Some(s) : s \in Selectors},
      l2_engine_api_url    : {None, Some("http://localhost:8551/")},
      l2_engine_jwt_secret : {None, Some("jwt.hex")} ]

\* faulty variant: the input is matched as typed, without to_lowercase
from_str_case_sensitive(s) ==
    IF s = STR_trusted THEN Ok("Trusted")
    ELSE IF s = STR_engine_api THEN Ok("EngineApi")
    ELSE Err(<<"Invalid validation mode: ", s>>)

\* impl FromStr for ValidationMode
from_str(s) ==
    LET l == to_lowercase(s) IN
    IF l = STR_trusted THEN Ok("Trusted")
    ELSE IF l = STR_engine_api THEN Ok("EngineApi")
    ELSE Err(<<"Invalid validation mode: ", s>>)

\* #[clap(default_value = "trusted")]: the string handed to the value parser
validation_mode_raw(c) ==
    IF IsSome(c.validation_mode) THEN Unwrap(c.validation_mode) ELSE STR_trusted

\* #[clap(requires_ifs([("engine-api", ..url), ("engine-api", ..jwt)]))]:
\* the arguments clap then requires and does not find. clap compares the
\* value as given on the command line with the literal "engine-api" (the
\* argument does not set ignore_case), and a defaulted value requires nothing.
requires_ifs_missing(c) ==
    IF IsSome(c.validation_mode) /\ Unwrap(c.validation_mode) = STR_engine_api
    THEN ({"l2_engine_api_url"}    \cap {f \in {"l2_engine_api_url"} : c.l2_engine_api_url = None})
         \cup
         ({"l2_engine_jwt_secret"} \cap {f \in {"l2_engine_jwt_secret"} : c.l2_engine_jwt_secret = None})
    ELSE {}

\* clap's parse of HeraArgsExt: Ok(args) or a usage error, which is a pair:
\* the message of the value parser with the rejected input, or the
\* missing-argument message with the names of the arguments not given
parse_args(c) ==
    LET mode == from_str(validation_mode_raw(c)) IN
    IF ~mode.ok THEN Err(Unwrap(mode.err))
    ELSE IF requires_ifs_missing(c) # {}
         THEN Err(<<"UsageError: missing required argument",
                    (IF "l2_engine_api_url" \in requires_ifs_missing(c)
                     THEN <<"l2_engine_api_url">> ELSE <<>>)
                    \o (IF "l2_engine_jwt_secret" \in requires_ifs_missing(c)
                        THEN <<"l2_engine_jwt_secret">> ELSE <<>>)>>)
    ELSE Ok([ l2_chain_id          |-> c.l2_chain_id,
              l2_config_file       |-> c.l2_config_file,
              validation_mode      |-> Unwrap(mode.val),
              l2_engine_api_url    |-> c.l2_engine_api_url,
              l2_engine_jwt_secret |-> c.l2_engine_jwt_secret ])

\* faulty variant: a file that fails falls back to the registry
resolve_config_fallback(a) ==
    LET found == from_l2_chain_id(a.l2_chain_id)
        reg   == IF found = None THEN Err("Failed to find l2 config for chain ID")
                 ELSE Ok(Unwrap(found))
    IN
    IF IsSome(a.l2_config_file)
    THEN LET file == FileOpen(Unwrap(a.l2_config_file)) IN
         IF ~file.ok THEN reg
         ELSE IF from_reader(Unwrap(file.val)).ok THEN from_reader(Unwrap(file.val))
         ELSE reg
    ELSE reg

\* faulty variant: the registry is asked first and the file only used when
\* the chain is unknown
resolve_config_registry_first(a) ==
    LET found == from_l2_chain_id(a.l2_chain_id) IN
    IF found # None THEN Ok(Unwrap(found))
    ELSE IF IsSome(a.l2_config_file)
    THEN LET file == FileOpen(Unwrap(a.l2_config_file)) IN
         IF ~file.ok THEN Err(Unwrap(file.err))
         ELSE from_reader(Unwrap(file.val))
    ELSE Err("Failed to find l2 config for chain ID")

\* the `let cfg = match &args.l2_config_file { .. }` of HeraCli::run
resolve_config(a) ==
    IF IsSome(a.l2_config_file)
    THEN LET file == FileOpen(Unwrap(a.l2_config_file)) IN
         IF ~file.ok THEN Err(Unwrap(file.err))
         ELSE from_reader(Unwrap(file.val))
    ELSE LET found == from_l2_chain_id(a.l2_chain_id) IN
         IF found = None THEN Err("Failed to find l2 config for chain ID")
         ELSE Ok(Unwrap(found))

-----------------------------------------------------------------------------
(* Notifications *)

\* ExExNotification: one that carries a committed chain with the given tip
\* (ChainCommitted; ChainReorged behaves alike here) or one that carries none
\* (ChainReverted)
Notifications ==
    [kind : {"ChainCommitted"}, tip : Heights] \cup {[kind |-> "ChainReverted", tip |-> 0]}

\* faulty variant: every notification is taken to carry a committed chain
committed_chain_always(n) == Some(n.tip)

\* notification.committed_chain() followed by .tip().block.header().number
committed_chain(n) == IF n.kind = "ChainCommitted" THEN Some(n.tip) ELSE None

\* faulty variant: the comparison is strict
genesis_reached_strict(t, c) == t > c.genesis_l1_number

\* `tip >= self.cfg.genesis.l1.number`
genesis_reached(t, c) == t >= c.genesis_l1_number

PcValues == {"cli", "run", "install", "recv", "send", "compare", "synced",
             "exit", "failed", "panicked"}

\* the execution extension has been installed and the host drives its channels
Installed == pc \in {"recv", "send", "compare", "synced", "failed", "panicked"}

-----------------------------------------------------------------------------
(* Initial state: a command line has been given, nothing has run *)

Init ==
    /\ pc = "cli"
    /\ cli \in {Some(c) : c \in CliInputs}
    /\ args = None
    /\ cfg = None
    /\ outcome = None
    /\ queue = <<>>
    /\ closed = FALSE
    /\ events_closed = FALSE
    /\ tip = None
    /\ recv_none = FALSE
    /\ consumed = <<>>
    /\ acks = <<>>
    /\ results = <<>>

chan_vars == <<queue, closed, events_closed>>
hist_vars == <<consumed, acks, results>>

-----------------------------------------------------------------------------
(* HeraCli::run up to the installation of the execution extension *)

\* clap parses the command line into HeraArgsExt
ParseArgs ==
    /\ pc = "cli"
    /\ LET r == parse_args(Unwrap(cli)) IN
       IF r.ok
       THEN /\ args' = Some(Unwrap(r.val))
            /\ pc' = "run"
            /\ outcome' = outcome
       ELSE /\ args' = args
            /\ pc' = "exit"
            /\ outcome' = Some(Unwrap(r.err))
    /\ cli' = None
    /\ UNCHANGED <<cfg, tip, recv_none, chan_vars, hist_vars>>

\* the rollup configuration is resolved from the file or the registry
ResolveConfig ==
    /\ pc = "run"
    /\ LET r == resolve_config(Unwrap(args)) IN
       IF r.ok
       THEN /\ cfg' = Some(Unwrap(r.val))
            /\ pc' = "install"
            /\ outcome' = outcome
       ELSE /\ cfg' = cfg
            /\ pc' = "exit"
            /\ outcome' = Some(Unwrap(r.err))
    /\ UNCHANGED <<cli, args, tip, recv_none, chan_vars, hist_vars>>

\* install_exex + launch: HeraExEx::new(ctx, args, cfg) keeps ctx and cfg and
\* drops args; start() is entered and reaches the first recv()
InstallExEx ==
    /\ pc = "install"
    /\ pc' = "recv"
    /\ args' = None
    /\ UNCHANGED <<cli, cfg, outcome, tip, recv_none, chan_vars, hist_vars>>

-----------------------------------------------------------------------------
(* The host node: the other end of ctx.notifications and ctx.events *)

HostNotify ==
    /\ Installed
    /\ ~closed
    /\ Len(consumed) + Len(queue) < MaxNotifs
    /\ \E n \in Notifications : queue' = Append(queue, n)
    /\ UNCHANGED <<pc, cli, args, cfg, outcome, closed, events_closed, tip,
                   recv_none, hist_vars>>

HostCloseNotifications ==
    /\ Installed
    /\ ~closed
    /\ closed' = TRUE
    /\ UNCHANGED <<pc, cli, args, cfg, outcome, queue, events_closed, tip,
                   recv_none, hist_vars>>

HostDropEvents ==
    /\ Installed
    /\ ~events_closed
    /\ events_closed' = TRUE
    /\ UNCHANGED <<pc, cli, args, cfg, outcome, queue, closed, tip,
                   recv_none, hist_vars>>

-----------------------------------------------------------------------------
(* HeraExEx::wait_for_l2_genesis_l1_block, one step per await or statement *)

\* faulty variant: the segment goes to the comparison without being acknowledged
RecvNotification_SkipAck ==
    /\ pc = "recv"
    /\ queue # <<>>
    /\ LET n == Head(queue) IN
       /\ queue' = Tail(queue)
       /\ consumed' = Append(consumed, n)
       /\ recv_none' = FALSE
       /\ tip' = committed_chain(n)
       /\ pc' = IF IsSome(committed_chain(n)) THEN "compare" ELSE "recv"
    /\ UNCHANGED <<cli, args, cfg, outcome, closed, events_closed, acks, results>>

\* recv() returns Some(notification); `if let Some(committed_chain)` reads the tip
RecvNotification ==
    /\ pc = "recv"
    /\ queue # <<>>
    /\ LET n == Head(queue) IN
       /\ queue' = Tail(queue)
       /\ consumed' = Append(consumed, n)
       /\ recv_none' = FALSE
       /\ tip' = committed_chain(n)
       /\ pc' = IF IsSome(committed_chain(n)) THEN "send" ELSE "recv"
    /\ UNCHANGED <<cli, args, cfg, outcome, closed, events_closed, acks, results>>

\* recv() returns None: the channel is closed and drained; the loop starts over
RecvNone ==
    /\ pc = "recv"
    /\ queue = <<>>
    /\ closed
    /\ recv_none' = TRUE
    /\ pc' = "recv"
    /\ UNCHANGED <<cli, args, cfg, outcome, tip, chan_vars, hist_vars>>

\* faulty variant: the anchor height is acknowledged instead of the tip
SendFinishedHeight_Anchor ==
    /\ pc = "send"
    /\ IF events_closed
       THEN /\ pc' = "failed"
            /\ outcome' = Some("Critical: Failed to send ExEx event")
            /\ acks' = acks
            /\ tip' = None
       ELSE /\ pc' = "compare"
            /\ outcome' = outcome
            /\ acks' = Append(acks, Unwrap(cfg).genesis_l1_number)
            /\ tip' = tip
    /\ UNCHANGED <<cli, args, cfg, recv_none, chan_vars, consumed, results>>

\* faulty variant: the result of send() is ignored
SendFinishedHeight_IgnoreError ==
    /\ pc = "send"
    /\ pc' = "compare"
    /\ acks' = IF events_closed THEN acks ELSE Append(acks, Unwrap(tip))
    /\ UNCHANGED <<cli, args, cfg, outcome, tip, recv_none, chan_vars, consumed, results>>

\* self.ctx.events.send(ExExEvent::FinishedHeight(tip)), bail! on Err; the
\* error goes through `?` in start(), which returns it
SendFinishedHeight ==
    /\ pc = "send"
    /\ IF events_closed
       THEN /\ pc' = "failed"
            /\ outcome' = Some("Critical: Failed to send ExEx event")
            /\ acks' = acks
            /\ tip' = None
       ELSE /\ pc' = "compare"
            /\ outcome' = outcome
            /\ acks' = Append(acks, Unwrap(tip))
            /\ tip' = tip
    /\ UNCHANGED <<cli, args, cfg, recv_none, chan_vars, consumed, results>>

\* faulty variant: the first tip ever acknowledged is compared, not the current one
CompareTip_StaleTip ==
    /\ pc = "compare"
    /\ IF genesis_reached(acks[1], Unwrap(cfg))
       THEN /\ results' = Append(results, "reached_genesis")
            /\ pc' = "synced"
       ELSE /\ results' = Append(results, "still_waiting")
            /\ pc' = "recv"
    /\ tip' = None
    /\ UNCHANGED <<cli, args, cfg, outcome, recv_none, chan_vars, consumed, acks>>

\* faulty variant: the loop goes on after the tip has reached the anchor
CompareTip_NoBreak ==
    /\ pc = "compare"
    /\ results' = Append(results, IF genesis_reached(Unwrap(tip), Unwrap(cfg))
                                  THEN "reached_genesis" ELSE "still_waiting")
    /\ pc' = "recv"
    /\ tip' = None
    /\ UNCHANGED <<cli, args, cfg, outcome, recv_none, chan_vars, consumed, acks>>

\* if tip >= self.cfg.genesis.l1.number { break Ok(()) } else { debug!(..) }
CompareTip ==
    /\ pc = "compare"
    /\ IF genesis_reached(Unwrap(tip), Unwrap(cfg))
       THEN /\ results' = Append(results, "reached_genesis")
            /\ pc' = "synced"
       ELSE /\ results' = Append(results, "still_waiting")
            /\ pc' = "recv"
    /\ tip' = None
    /\ UNCHANGED <<cli, args, cfg, outcome, recv_none, chan_vars, consumed, acks>>

-----------------------------------------------------------------------------
(* HeraExEx::start after the wait returned Ok *)

\* info!("Chain synced to rollup genesis"); todo!(..) panics
StartPipeline ==
    /\ pc = "synced"
    /\ pc' = "panicked"
    /\ outcome' = Some("panic: not yet implemented: init pipeline and start processing events")
    /\ UNCHANGED <<cli, args, cfg, tip, recv_none, chan_vars, hist_vars>>

-----------------------------------------------------------------------------

\* the steps of the execution extension's own task
ExExStep ==
    \/ RecvNotification
    \/ RecvNone
    \/ SendFinishedHeight
    \/ CompareTip
    \/ StartPipeline

Next ==
    \/ ParseArgs
    \/ ResolveConfig
    \/ InstallExEx
    \/ HostNotify
    \/ HostCloseNotifications
    \/ HostDropEvents
    \/ ExExStep

Spec == Init /\ [][Next]_vars

\* the executor keeps polling the extension's task while it can take a step
FairSpec == Spec /\ WF_vars(ExExStep) /\ WF_vars(ParseArgs \/ ResolveConfig \/ InstallExEx)

TypeOK ==
    /\ pc \in PcValues
    /\ cli \in {None} \cup {Some(c) : c \in CliInputs}
    /\ closed \in BOOLEAN /\ events_closed \in BOOLEAN /\ recv_none \in BOOLEAN
    /\ tip \in {None} \cup {Some(h) : h \in Heights}
    /\ Len(consumed) + Len(queue) <= MaxNotifs
    /\ \A i \in 1..Len(queue) : queue[i] \in Notifications
    /\ \A i \in 1..Len(consumed) : consumed[i] \in Notifications
    /\ \A i \in 1..Len(acks) : acks[i] \in Heights
    /\ \A i \in 1..Len(results) : results[i] \in {"still_waiting", "reached_genesis"}

-----------------------------------------------------------------------------
(* Views of the history used by the properties *)

\* the anchor height cfg.genesis.l1.number
Anchor == Unwrap(cfg).genesis_l1_number

\* the committed segments consumed so far, in order
Segments == SelectSeq(consumed, LAMBDA n : n.kind = "ChainCommitted")

\* their tip heights
Tips == [i \in 1..Len(Segments) |-> Segments[i].tip]

NonDecreasing(s) == \A i \in 1..Len(s) : \A j \in 1..Len(s) : i <= j => s[i] <= s[j]

\* wait_for_l2_genesis_l1_block has returned Ok
WaitReturnedOk == pc \in {"synced", "panicked"}

\* the number of times the gate reported reached_genesis
SyncCount == Cardinality({i \in 1..Len(results) : results[i] = "reached_genesis"})

\* committed segments received and not acknowledged
Outstanding == Len(Tips) - Len(acks)

-----------------------------------------------------------------------------
(* C1 *)

\* C1: with non-decreasing tips (gaps allowed) the wait returns Ok at most
\* once, and exactly for the first committed segment whose tip is >= the anchor
\* height: no earlier segment (tip < anchor) is reported as reached_genesis,
\* nothing is consumed after it, and the loop never asks for another
\* notification once a segment with tip >= anchor has been consumed.
C1_SyncedOnceAtFirstTipAtAnchor ==
    (Installed /\ NonDecreasing(Tips)) =>
        /\ SyncCount <= 1
        /\ Len(results) <= Len(Tips)
        /\ \A i \in 1..Len(results) :
              /\ results[i] = "still_waiting" => Tips[i] < Anchor
              /\ results[i] = "reached_genesis" =>
                    /\ Tips[i] >= Anchor
                    /\ \A j \in 1..(i - 1) : Tips[j] < Anchor
                    /\ i = Len(Tips)
        /\ WaitReturnedOk <=> SyncCount = 1
        /\ pc = "recv" => \A i \in 1..Len(Tips) : Tips[i] < Anchor

\* a gap: the tip jumps from below the anchor to strictly above it and the wait returns Ok
C1_Witness ==
    /\ pc = "synced"
    /\ Len(Tips) = 2
    /\ Tips[1] < Anchor
    /\ Tips[2] > Anchor
    /\ SyncCount = 1

-----------------------------------------------------------------------------
(* C2 *)

\* C2: at most one committed segment is received and not yet acknowledged, and
\* the loop is at recv() only when every received segment has been
\* acknowledged; an unacknowledged segment exists only between its receipt and
\* its send, or after the send failed and the loop ended.
C2_OneOutstandingSegment ==
    Installed =>
        /\ Outstanding \in {0, 1}
        /\ pc = "recv" => Outstanding = 0
        /\ Outstanding = 1 => pc \in {"send", "failed"}

\* the loop is back at recv() for the third time, two segments acknowledged
C2_Witness ==
    /\ pc = "recv"
    /\ Len(Tips) = 2
    /\ Len(acks) = 2
    /\ queue # <<>>

-----------------------------------------------------------------------------
(* C3 *)

\* C3: while no send has failed, the acknowledgments are the tips of the
\* consumed segments, in order, one per segment (all of them once the
\* iteration is over), and the gate results are still_waiting for tips below
\* the anchor and reached_genesis for the tip that reaches it.
C3_AcksAreTipsInOrder ==
    (Installed /\ pc # "failed") =>
        /\ Len(acks) <= Len(Tips)
        /\ acks = SubSeq(Tips, 1, Len(acks))
        /\ pc \in {"recv", "synced", "panicked"} => (acks = Tips /\ Len(results) = Len(Tips))
        /\ Len(results) <= Len(acks)
        /\ \A i \in 1..Len(results) :
              results[i] = IF Tips[i] >= Anchor THEN "reached_genesis" ELSE "still_waiting"

\* the example of the specification, scaled: anchor 2 and tips [0, 1, 3]
C3_Witness ==
    /\ pc = "synced"
    /\ Anchor = 2
    /\ Tips = <<0, 1, 3>>
    /\ results = <<"still_waiting", "still_waiting", "reached_genesis">>
    /\ acks = <<0, 1, 3>>

-----------------------------------------------------------------------------
(* C4 *)

\* C4: a failed send ends the loop at once with the critical error: the step
\* that finds the events channel closed moves to "failed" with that error and
\* changes no history; in "failed" the segment whose send failed is
\* unacknowledged and was never compared, no reached_genesis was reported, and
\* "failed" is never left nor is anything more consumed, sent or decided.
C4_SendFailureIsFatal ==
    /\ [](pc = "failed" =>
            /\ outcome = Some("Critical: Failed to send ExEx event")
            /\ Len(Tips) = Len(acks) + 1
            /\ Len(results) = Len(acks)
            /\ SyncCount = 0)
    /\ [][ /\ (pc = "send" /\ events_closed /\ pc' # "send") =>
                (pc' = "failed" /\ UNCHANGED <<consumed, acks, results>>)
           /\ pc = "failed" =>
                (pc' = "failed" /\ UNCHANGED <<outcome, consumed, acks, results, tip>>)
         ]_vars

\* the send failed for a segment whose tip reaches the anchor, with another
\* notification waiting in the channel
C4_Witness ==
    /\ pc = "failed"
    /\ Tips[Len(Tips)] >= Anchor
    /\ queue # <<>>

-----------------------------------------------------------------------------
(* C5 *)

\* C5: once recv() has returned None (the notification channel is closed for
\* good) while the driver waits for genesis, the driver has terminated with
\* the host-disconnected reason and is not back at recv() asking for more.
C5_ClosedChannelTerminates ==
    recv_none => (pc # "recv" /\ outcome = Some("host-disconnected"))

-----------------------------------------------------------------------------
(* C6 *)

\* C6: arguments that parsed to ValidationMode::EngineApi always come with the
\* engine-API URL and the JWT-secret path, in every state where the parsed
\* arguments exist (from the end of parsing to HeraExEx::new).
C6_EngineApiHasCredentials ==
    (IsSome(args) /\ Unwrap(args).validation_mode = "EngineApi") =>
        /\ IsSome(Unwrap(args).l2_engine_api_url)
        /\ IsSome(Unwrap(args).l2_engine_jwt_secret)

-----------------------------------------------------------------------------
(* C7 *)

\* C7: the step that consumes a notification carrying no committed chain
\* happens at recv() and leaves the loop at recv(), with no acknowledgment,
\* no comparison, no tip, no outcome and no change to the events channel.
C7_NoSegmentIsIgnored ==
    [][ (Len(consumed') = Len(consumed) + 1
            /\ consumed'[Len(consumed')].kind = "ChainReverted") =>
        /\ pc = "recv" /\ pc' = "recv"
        /\ tip' = None
        /\ UNCHANGED <<acks, results, outcome, cfg, events_closed, closed>>
      ]_vars

\* a notification without a segment was consumed, and the loop went on to
\* consume a segment and reach genesis with it
C7_Witness ==
    /\ pc = "synced"
    /\ Len(consumed) = 2
    /\ consumed[1].kind = "ChainReverted"
    /\ acks = <<consumed[2].tip>>

-----------------------------------------------------------------------------
(* C8 *)

\* C8: once the gate has reported reached_genesis the driver is in its steady
\* state (running, no outcome) or has terminated with one of the reasons of
\* the specification; it has not aborted.
C8_GenesisLeadsToSteadyState ==
    SyncCount > 0 =>
        \/ (pc = "synced" /\ outcome = None)
        \/ outcome \in {Some("host-disconnected"), Some("validation-failure"),
                        Some("exhausted-retries"),
                        Some("Critical: Failed to send ExEx event")}

-----------------------------------------------------------------------------
(* C9 *)

\* C9: after genesis the driver ends only through the validation outcomes:
\* Terminated(exhausted-retries) after the maximum number of consecutive
\* Indeterminate outcomes, or Terminated(validation-failure) on Invalid.
C9_SteadyStateTerminations ==
    (WaitReturnedOk /\ IsSome(outcome)) =>
        outcome \in {Some("exhausted-retries"), Some("validation-failure")}

-----------------------------------------------------------------------------
(* C10 *)

\* C10: every acknowledgment is emitted after the comparison of its segment's
\* tip with the anchor: there are never more acknowledgments than decisions.
C10_AckAfterDecision == Len(acks) <= Len(results)

-----------------------------------------------------------------------------
(* C11 *)

\* C11: when the rollup configuration cannot be resolved (the file given
\* cannot be opened or is no rollup configuration, or no file is given and
\* the chain ID is not in the registry) run() ends with the matching
\* configuration error before the extension is installed: the program never
\* gets past the resolution, no configuration is kept, and no notification is
\* sent, consumed or acknowledged.
C11_UnresolvedConfigNeverInstalls ==
    IsSome(args) =>
        LET a        == Unwrap(args)
            unopened == IsSome(a.l2_config_file) /\ Unwrap(a.l2_config_file)[1] = "missing"
            unparsed == IsSome(a.l2_config_file) /\ Unwrap(a.l2_config_file)[1] = "garbage"
            unknown  == a.l2_config_file = None /\ a.l2_chain_id # DEFAULT_L2_CHAIN_ID
        IN
        /\ (unopened \/ unparsed \/ unknown) =>
              /\ pc \in {"run", "exit"}
              /\ cfg = None
              /\ queue = <<>> /\ consumed = <<>> /\ acks = <<>> /\ results = <<>>
              /\ pc = "exit" =>
                    outcome = IF unopened THEN Some("Failed to open l2 config file")
                              ELSE IF unparsed THEN Some("Failed to read l2 config file")
                              ELSE Some("Failed to find l2 config for chain ID")
        /\ pc = "exit" => (unopened \/ unparsed \/ unknown)

\* run() has ended on a file that cannot be opened, although the chain ID is
\* one the registry knows
C11_Witness ==
    /\ pc = "exit"
    /\ IsSome(args)
    /\ Unwrap(args).l2_config_file = Some(<<"missing", 0>>)
    /\ Unwrap(args).l2_chain_id = DEFAULT_L2_CHAIN_ID
    /\ outcome = Some("Failed to open l2 config file")

-----------------------------------------------------------------------------
(* C12 *)

\* C12: the file has priority over the registry. With a file path given, the
\* configuration kept is the one the file holds, whatever the chain ID, a
\* file that fails ends run() with the file's error (no fallback to the
\* registry), and the registry's "not found" error never occurs; with no file
\* path given the configuration kept is the registry's entry for the chain ID.
C12_FileBeforeRegistry ==
    IsSome(args) =>
        LET a == Unwrap(args) IN
        IF IsSome(a.l2_config_file)
        THEN LET path == Unwrap(a.l2_config_file) IN
             /\ IsSome(cfg) =>
                   /\ path[1] = "rollup"
                   /\ Unwrap(cfg).genesis_l1_number = path[2]
             /\ path[1] # "rollup" => pc \in {"run", "exit"}
             /\ path[1] = "rollup" => pc \in {"run", "install"}
             /\ outcome \in {None, Some("Failed to open l2 config file"),
                             Some("Failed to read l2 config file")}
        ELSE /\ IsSome(cfg) => cfg = from_l2_chain_id(a.l2_chain_id)
             /\ from_l2_chain_id(a.l2_chain_id) = None => pc \in {"run", "exit"}
             /\ from_l2_chain_id(a.l2_chain_id) # None => pc \in {"run", "install"}
             /\ outcome \in {None, Some("Failed to find l2 config for chain ID")}

\* a file is given together with a chain ID the registry knows, and the
\* configuration kept is the file's, which differs from the registry's
C12_Witness ==
    /\ pc = "install"
    /\ IsSome(args)
    /\ Unwrap(args).l2_config_file = Some(<<"rollup", 0>>)
    /\ Unwrap(args).l2_chain_id = DEFAULT_L2_CHAIN_ID
    /\ Unwrap(cfg).genesis_l1_number = 0
    /\ cfg # from_l2_chain_id(DEFAULT_L2_CHAIN_ID)

-----------------------------------------------------------------------------
(* C13 *)

\* C13: in the step that parses the command line, the validation-mode string
\* (the one given, or the default "trusted") is decided by its lowercase form
\* alone: "trusted" gives ValidationMode::Trusted and is accepted with or
\* without the engine-API URL and JWT secret, "engine-api" gives
\* ValidationMode::EngineApi whenever the arguments are accepted and is
\* otherwise rejected only for a missing argument, and any other string is
\* rejected with the error "Invalid validation mode: " naming that string.
C13_FromStrTotalCaseInsensitive ==
    [][ (pc = "cli" /\ pc' # "cli") =>
          LET c == Unwrap(cli)
              s == IF c.validation_mode = None THEN STR_trusted
                   ELSE Unwrap(c.validation_mode)
              l == to_lowercase(s)
          IN
          /\ l = STR_trusted =>
                /\ pc' = "run"
                /\ Unwrap(args').validation_mode = "Trusted"
                /\ Unwrap(args').l2_engine_api_url = c.l2_engine_api_url
                /\ Unwrap(args').l2_engine_jwt_secret = c.l2_engine_jwt_secret
          /\ l = STR_engine_api =>
                \/ pc' = "run" /\ Unwrap(args').validation_mode = "EngineApi"
                \/ /\ pc' = "exit"
                   /\ Unwrap(outcome')[1] = "UsageError: missing required argument"
          /\ (l # STR_trusted /\ l # STR_engine_api) =>
                /\ pc' = "exit"
                /\ args' = None
                /\ outcome' = Some(<<"Invalid validation mode: ", s>>)
      ]_vars

\* a string that is neither mode in any case was rejected by name
C13_Witness ==
    /\ pc = "exit"
    /\ args = None
    /\ outcome = Some(<<"Invalid validation mode: ", <<"e","n","g","i","n","e","_","a","p","i">>>>)

-----------------------------------------------------------------------------
(* C14 *)

\* C14: for any order of tips, decreasing ones included, each decision is made
\* from the compared segment's tip and the anchor alone: the step that decides
\* changes nothing but the position, the local tip and the list of results,
\* it appends reached_genesis and leaves the loop exactly when that tip is
\* >= the anchor, and still_waiting and back to recv() otherwise; so the loop
\* waits while every tip is below the anchor and returns Ok at the first that
\* is not.
C14_DecisionFromCurrentTipOnly ==
    /\ [](Installed =>
            /\ pc = "recv" => \A i \in 1..Len(Tips) : Tips[i] < Anchor
            /\ WaitReturnedOk =>
                  /\ Tips[Len(Tips)] >= Anchor
                  /\ \A i \in 1..(Len(Tips) - 1) : Tips[i] < Anchor)
    /\ [][ Len(results') = Len(results) + 1 =>
             LET k == Len(results') IN
             /\ k = Len(Tips)
             /\ tip = Some(Tips[k])
             /\ UNCHANGED <<cfg, consumed, acks, queue, outcome>>
             /\ IF Tips[k] >= Anchor
                THEN results'[k] = "reached_genesis" /\ pc' = "synced"
                ELSE results'[k] = "still_waiting" /\ pc' = "recv"
         ]_vars

\* the tips went down before they reached the anchor
C14_Witness ==
    /\ pc = "synced"
    /\ Len(Tips) = 3
    /\ Tips[1] > Tips[2]
    /\ Tips[2] < Anchor
    /\ Tips[3] = Anchor
    /\ results = <<"still_waiting", "still_waiting", "reached_genesis">>

-----------------------------------------------------------------------------
(* C15 *)

\* C15: under fair scheduling of the extension's task, if no acknowledgment
\* send ever fails (the events channel stays open), then whenever the
\* notification channel holds a committed segment whose tip is >= the anchor,
\* whatever precedes it in the channel, wait_for_l2_genesis_l1_block
\* eventually returns Ok.
C15_EventuallySynced ==
    []~events_closed =>
        ((/\ Installed
          /\ \E i \in 1..Len(queue) :
                queue[i].kind = "ChainCommitted" /\ queue[i].tip >= Anchor)
         ~> WaitReturnedOk)

\* the wait returned Ok for the third notification, after one without a
\* segment and one below the anchor, with the events channel still open
C15_Witness ==
    /\ WaitReturnedOk
    /\ ~events_closed
    /\ Len(consumed) = 3
    /\ consumed[1].kind = "ChainReverted"
    /\ consumed[2].kind = "ChainCommitted" /\ consumed[2].tip < Anchor
    /\ consumed[3].kind = "ChainCommitted" /\ consumed[3].tip >= Anchor

-----------------------------------------------------------------------------
(* C16 *)

\* C16: during the genesis wait every acknowledgment but the last carries a
\* height strictly below the anchor, so at most one acknowledgment has a
\* height >= the anchor and it is the last; once such an acknowledgment has
\* been sent nothing more is ever sent.
C16_OnlyLastAckReachesAnchor ==
    /\ [](Installed =>
            /\ \A i \in 1..(Len(acks) - 1) : acks[i] < Anchor
            /\ Cardinality({i \in 1..Len(acks) : acks[i] >= Anchor}) <= 1)
    /\ [][ (Len(acks) > 0 /\ acks[Len(acks)] >= Anchor) => acks' = acks ]_vars

\* an acknowledgment at or above the anchor followed one below it, the run
\* went on to its end, and a notification still waits in the channel unanswered
C16_Witness ==
    /\ pc = "panicked"
    /\ Len(acks) = 2
    /\ acks[1] < Anchor
    /\ acks[2] >= Anchor
    /\ queue # <<>>
    /\ ~events_closed

====
